---- MODULE Spec2Model ----
(***************************************************************************)
(* The news worker of EconomicNewsBot: the FetchNewsJob normalisation that *)
(* fills the NewsEvent table, and SendAlertsJob, the scan that runs every  *)
(* minute, finds the events of its two time windows and publishes one      *)
(* queue message per matching NewsAlert configuration.                     *)
(*                                                                         *)
(* Instants are seconds after a base UTC instant.  A naive timestamp is a  *)
(* wall-clock reading reinterpreted as UTC, in the same unit.              *)
(***************************************************************************)
EXTENDS Integers, Naturals, Sequences, FiniteSets, Bags, TLC

\* ------------------------------------------------------------------ bounds
\* the wall clock runs from 0 to MaxTicks half-minute ticks
MaxTicks == 13
\* SendAlertsJob.execute is started at most MaxRuns times
MaxRuns == 2
\* at most MaxFailures store queries or queue publishes fail
MaxFailures == 1
\* SpecCache starts with MaxSentAlerts - k keys of earlier events, k <= CacheSlack
CacheSlack == 1
\* ticks of the clock while executions overlap
OverlapTicks == 3
\* calls of generateNewsEventHash that are compared
MaxHashCalls == 2
\* messages that reach the news_alerts queue
MaxQueued == 3
\* times the consumer's channel closes
MaxCloses == 1
\* rows of earlier weeks in the table when the sweep runs
MaxOldRows == 3
\* runs of the cleanup job
MaxSweeps == 2
\* days that go by between the runs
MaxDays == 2

\* emissions of ClientReady per client, and commands served per client
MaxReadyEvents == 2

MaxCommands == 2

\* the largest permission integer Discord reports in the permission check
MaxPermission == 63

\* ------------------------------------------------------- program constants
\* send-alerts.job.ts:188  if (this.sentAlerts.size > 1000)
MaxSentAlerts == 1000

TickSeconds == 60 \div 2
FiveMinutes == 5 * 60
AlertTypes == {"FIVE_MINUTES_BEFORE", "ON_NEWS_DROP"}
\* the executions of SendAlertsJob.execute on the one job instance
Exec == {1, 2}

\* ---------------------------------------------------------------- time zones
\* The worker's process time zone is a deployment setting (TZ).
Zones == {"UTC", "America/New_York"}
\* New York leaves daylight saving time (EDT, UTC-4) for EST (UTC-5) here.
DstEnd == 3 * 60
ZoneOffset(zone, inst) ==
  IF zone = "UTC" THEN 0
  ELSE IF inst < DstEnd THEN -(4 * 3600) ELSE -(5 * 3600)

\* dayjs(...).startOf("minute")
StartOfMinute(inst) == inst - (inst % 60)
\* the wall-clock reading of an instant in a zone, in seconds
WallClock(zone, inst) == inst + ZoneOffset(zone, inst)
\* A time string is its date-hour-minute part (a count of minutes) and its
\* seconds part.
\* format('YYYY-MM-DD HH:mm:00') of an instant in a zone: the seconds are
\* written as 00
FormatMinute00(zone, inst) == [ymdhm |-> WallClock(zone, inst) \div 60, ss |-> 0]
\* format('YYYY-MM-DD HH:mm:ss') of an instant in a zone
FormatSeconds(zone, inst) ==
  [ymdhm |-> WallClock(zone, inst) \div 60, ss |-> WallClock(zone, inst) % 60]
\* dayjs.utc(timeString).toDate(): the digits of the string read as UTC
ParseAsUtc(timeString) == timeString.ymdhm * 60 + timeString.ss

\* ------------------------------------------------------------- FetchNewsJob
\* The provider's weekly news: the date is an offset-aware string, here its
\* wall-clock reading and its offset.
ProviderDate(inst) == [wall |-> inst + ZoneOffset("America/New_York", inst),
                       offset |-> ZoneOffset("America/New_York", inst)]
WeeklyNews == <<
  [title |-> "CPI", country |-> "usd", date |-> ProviderDate(6 * 60),
   impact |-> "High", forecast |-> "0.3%", previous |-> "0.2%"],
  [title |-> "GDP", country |-> "eur", date |-> ProviderDate(6 * 60),
   impact |-> "Low", forecast |-> "", previous |-> "1.1%"],
  [title |-> "PMI", country |-> "usd", date |-> ProviderDate(1 * 60),
   impact |-> "Medium", forecast |-> "50.1", previous |-> "49.8"],
  [title |-> "Speech", country |-> "usd", date |-> ProviderDate(6 * 60 + 30),
   impact |-> "High", forecast |-> "", previous |-> ""],
  [title |-> "Holiday", country |-> "all", date |-> ProviderDate(1 * 60),
   impact |-> "Holiday", forecast |-> "", previous |-> ""] >>

\* what the provider returns once forecasts were revised and the calendar
\* has a new entry
RevisedNews == <<
  [title |-> "CPI", country |-> "usd", date |-> ProviderDate(6 * 60),
   impact |-> "High", forecast |-> "0.4%", previous |-> "0.2%"],
  [title |-> "Holiday", country |-> "all", date |-> ProviderDate(1 * 60),
   impact |-> "Holiday", forecast |-> "", previous |-> ""],
  [title |-> "NFP", country |-> "usd", date |-> ProviderDate(2 * 60),
   impact |-> "High", forecast |-> "180K", previous |-> "175K"] >>
\* the answers newsService.getWeeklyNews may give
Feeds == {WeeklyNews, RevisedNews}

Currency == {"USD", "EUR", "GBP", "JPY"}
ToUpperCase(s) ==
  CASE s = "usd" -> "USD" [] s = "eur" -> "EUR" [] s = "all" -> "ALL"
    [] s = "High" -> "HIGH" [] s = "Medium" -> "MEDIUM" [] s = "Low" -> "LOW"
    [] s = "Holiday" -> "HOLIDAY" [] OTHER -> s

\* dayjs(newsItem.date): the instant the offset-aware string denotes
ParseDate(d) == d.wall - d.offset
\* mutant: the components are read off without .tz("America/New_York"), in UTC
EventDateUtc(newsItem) ==
  ParseAsUtc(FormatSeconds("UTC", ParseDate(newsItem.date)))

\* fetch-news.job.ts:75-82
EventDate(newsItem) ==
  ParseAsUtc(FormatSeconds("America/New_York", ParseDate(newsItem.date)))

\* the identity a provider item is stored under (lines 87-92)
ItemIdentity(newsItem) ==
  <<newsItem.title, EventDate(newsItem), ToUpperCase(newsItem.impact),
    ToUpperCase(newsItem.country)>>

\* mutant: no two rows conflict on the identity key
SameIdentityNever(row, title, date, impact, currency) == FALSE

\* @@unique([title, date, impact, currency])
SameIdentity(row, title, date, impact, currency) ==
  /\ row.title = title /\ row.date = date
  /\ row.impact = impact /\ row.currency = currency

\* mutant: a stored row keeps its forecast and previous
UpsertKeepOld(table, newsItem) ==
  LET currency == ToUpperCase(newsItem.country)
      impact == ToUpperCase(newsItem.impact)
      eventDate == EventDate(newsItem)
      hit == {r \in table : SameIdentity(r, newsItem.title, eventDate, impact, currency)}
  IN IF hit # {}
     THEN table
     ELSE table \cup {[id |-> Cardinality(table) + 1, title |-> newsItem.title,
                       currency |-> currency, date |-> eventDate, impact |-> impact,
                       forecast |-> newsItem.forecast, previous |-> newsItem.previous,
                       actual |-> "", isProcessed |-> FALSE, source |-> "ForexFactory"]}

\* mutant: the update writes every column of the create
UpsertResetting(table, newsItem) ==
  LET currency == ToUpperCase(newsItem.country)
      impact == ToUpperCase(newsItem.impact)
      eventDate == EventDate(newsItem)
      hit == {r \in table : SameIdentity(r, newsItem.title, eventDate, impact, currency)}
  IN IF hit # {}
     THEN {IF r \in hit
           THEN [r EXCEPT !.forecast = newsItem.forecast, !.previous = newsItem.previous,
                          !.actual = "", !.isProcessed = FALSE]
           ELSE r : r \in table}
     ELSE table \cup {[id |-> Cardinality(table) + 1, title |-> newsItem.title,
                       currency |-> currency, date |-> eventDate, impact |-> impact,
                       forecast |-> newsItem.forecast, previous |-> newsItem.previous,
                       actual |-> "", isProcessed |-> FALSE, source |-> "ForexFactory"]}

\* mutant: a plain insert
UpsertInsertAlways(table, newsItem) ==
  table \cup {[id |-> Cardinality(table) + 1, title |-> newsItem.title,
               currency |-> ToUpperCase(newsItem.country), date |-> EventDate(newsItem),
               impact |-> ToUpperCase(newsItem.impact),
               forecast |-> newsItem.forecast, previous |-> newsItem.previous,
               actual |-> "", isProcessed |-> FALSE, source |-> "ForexFactory"]}

\* prisma.newsEvent.upsert on title_date_impact_currency
Upsert(table, newsItem) ==
  LET currency == ToUpperCase(newsItem.country)
      impact == ToUpperCase(newsItem.impact)
      eventDate == EventDate(newsItem)
      hit == {r \in table : SameIdentity(r, newsItem.title, eventDate, impact, currency)}
  IN IF hit # {}
     THEN {IF r \in hit
           THEN [r EXCEPT !.forecast = newsItem.forecast, !.previous = newsItem.previous]
           ELSE r : r \in table}
     ELSE table \cup {[id |-> Cardinality(table) + 1, title |-> newsItem.title,
                       currency |-> currency, date |-> eventDate, impact |-> impact,
                       forecast |-> newsItem.forecast, previous |-> newsItem.previous,
                       actual |-> "", isProcessed |-> FALSE, source |-> "ForexFactory"]}

\* mutant: every currency string passes
IsCurrencyAny(currency) == TRUE

\* fetch-news.job.ts:63  Object.values(Currency).includes(currency)
IsCurrency(currency) == currency \in Currency

\* the loop of fetchAndStoreNewsForMarket over the provider's items, when
\* every upsert resolves
RECURSIVE StoreNews(_, _)
StoreNews(table, news) ==
  IF news = <<>> THEN table
  ELSE IF ~IsCurrency(ToUpperCase(Head(news).country))
       THEN StoreNews(table, Tail(news))
       ELSE StoreNews(Upsert(table, Head(news)), Tail(news))

\* ------------------------------------------------------------ NewsAlert rows
AllAlertConfigs == {
  [id |-> 1, serverId |-> "S1", channelId |-> "C1", currency |-> {}, impact |-> {},
   alertType |-> {"FIVE_MINUTES_BEFORE", "ON_NEWS_DROP"}],
  [id |-> 2, serverId |-> "S1", channelId |-> "C2", currency |-> {}, impact |-> {"HIGH"},
   alertType |-> {"FIVE_MINUTES_BEFORE"}],
  [id |-> 3, serverId |-> "S2", channelId |-> "C3", currency |-> {"EUR", "GBP"}, impact |-> {},
   alertType |-> {"ON_NEWS_DROP"}],
  [id |-> 4, serverId |-> "S2", channelId |-> "C4", currency |-> {"USD"}, impact |-> {"LOW"},
   alertType |-> {"FIVE_MINUTES_BEFORE", "ON_NEWS_DROP"}] }
\* the tables the management surface may have left
AlertTables == {AllAlertConfigs, {c \in AllAlertConfigs : c.id # 1}}

VARIABLES
  clock,       \* the current instant
  zone,        \* the worker process's time zone
  newsEvents,  \* the NewsEvent table
  newsAlerts,  \* the NewsAlert table
  fetch,       \* fetch[x]: where execution x of FetchNewsJob.execute stands
  sentAlerts,  \* SendAlertsJob.sentAlerts
  job,         \* job[x]: where execution x of SendAlertsJob.execute stands
  published,   \* the news_alerts queue: the bag of payloads published
  sentLog,     \* history: the bag of <<event id, alert type, config id>> published
  lastDispatch,\* history: the last sendAlert call that marked its key as sent
  cleared,     \* history: cleanupSentAlerts has cleared the cache
  runs,        \* number of executions started
  failures,    \* number of failed queries and publishes
  timer,       \* the scheduler's one-minute timer of SendAlertsJob
  hashLog,     \* the calls of generateNewsEventHash and what they hashed
  consumer,    \* the Discord bot's consumer of the news_alerts queue
  web,         \* the dashboard backend: the user's session and the last answer
  swept,       \* the retention sweep: runs made and the rows the last one deleted
  sched,       \* where the execution of CheckSchedulesJob.execute stands
  bot          \* the Discord bot: its ready handler and its consumers

\* the state outside the news worker's jobs
sideVars == <<timer, hashLog, consumer, web, swept, sched, bot>>

vars == <<clock, zone, newsEvents, newsAlerts, fetch, sentAlerts, job,
          published, sentLog, lastDispatch, cleared, runs, failures, sideVars>>

AlertKey(event, alertType) == <<event.id, alertType>>

IdleJob == [pc |-> "idle", alertType |-> "none", target |-> 0, readAt |-> 0,
            began |-> 0, pending |-> <<>>, configs |-> <<>>,
            fiveEvents |-> {}, dropEvents |-> {}, skipped |-> {}, sent |-> {},
            unmatched |-> {}, caught |-> {}, attempts |-> <<>>,
            callMsgs |-> <<>>, result |-> "none"]

\* An execution of FetchNewsJob.execute: the items of the provider's answer
\* still to be stored, the counters of the loop, and for the record the
\* provider calls made, the upserts that resolved and those that rejected.
IdleFetch == [pc |-> "idle", items |-> <<>>, feed |-> <<>>, origin |-> {}, markets |-> {},
              list |-> <<>>, todo |-> <<>>, market |-> "none", marketLog |-> <<>>,
              created |-> 0, skipped |-> 0, calls |-> 0, writes |-> 0,
              rejected |-> 0, upserted |-> {}, hits |-> 0, overActual |-> FALSE,
              raced |-> FALSE, resumed |-> FALSE, result |-> "none"]

\* ------------------------------------------------------ CheckSchedulesJob
\* the Schedule rows: one per news scope, and one whose scope is none of the
\* three the switch of getNewsForSchedule knows
Schedules == {
  [id |-> 1, newsScope |-> "DAILY"],
  [id |-> 2, newsScope |-> "WEEKLY"],
  [id |-> 3, newsScope |-> "TOMORROW"],
  [id |-> 4, newsScope |-> "MONTHLY"] }
ScheduleIds == {s.id : s \in Schedules}
\* An execution of CheckSchedulesJob.execute: the schedules still to be
\* processed, and for the record the New York hour and minute asked for,
\* the schedules the query returned, what the news service answered for
\* each, how its processSchedule call ended and the tasks published for it.
IdleSchedules ==
  [pc |-> "idle", pending |-> <<>>, at |-> <<0, 0>>, queried |-> FALSE, matched |-> {},
   news |-> [id \in ScheduleIds |-> "unknown"],
   outcome |-> [id \in ScheduleIds |-> "none"],
   tasks |-> [id \in ScheduleIds |-> 0],
   runs |-> 0, failures |-> 0, result |-> "none"]

\* before the timer has fired, a hash was computed, a message was queued or
\* a dashboard request was made
\* what prisma.account.findFirst answers for a user without a Discord account
NoAccount == [row |-> FALSE, accessToken |-> "null", accessTokenExpiresAt |-> <<>>]

\* The Discord bot: one process per client (shard).  ready counts the
\* emissions of ClientReady, handled the runs of the ready handler; handler is
\* how the last run of the handler ended, consumers the state of the promise
\* of startConsumer, logged whether the start-up failure was logged, crashed
\* whether a rejection was left unhandled, commands the commands served and
\* servedWith the states of the consumers under which a command was served.
Clients == {1, 2}

IdleBot ==
  [ready |-> 0, handled |-> 0, handler |-> "none", consumers |-> "none",
   logged |-> FALSE, crashed |-> FALSE, commands |-> 0, servedWith |-> {}]

InitSide ==
  /\ timer = [fired |-> -1, skipped |-> 0]
  /\ hashLog = <<>>
  /\ consumer = [at |-> <<>>, sends |-> <<>>, closes |-> 0]
  /\ web = [account |-> NoAccount, guilds |-> {}, answer |-> [procedure |-> "none"]]
  /\ swept = [count |-> 0, deleted |-> {}]
  /\ sched = IdleSchedules
  /\ bot = [c \in Clients |-> IdleBot]

InitRest(zones, tables) ==
  /\ InitSide
  /\ clock = 0
  /\ zone \in zones
  /\ newsEvents = StoreNews({}, WeeklyNews)
  /\ newsAlerts \in tables
  /\ job = [x \in Exec |-> IdleJob]
  /\ fetch = [x \in Exec |-> IdleFetch]
  /\ published = EmptyBag
  /\ sentLog = EmptyBag
  /\ lastDispatch = [key |-> <<0, "none">>, msgs |-> <<>>]
  /\ cleared = FALSE
  /\ runs = 0
  /\ failures = 0

\* the worker after start-up
Init == InitRest(Zones, AlertTables) /\ sentAlerts = {}

\* The worker after a long run: the cache holds the keys of n earlier events,
\* which the retention sweep has since deleted from the table.
EarlierKeys(n) == {<<1000 + i, "ON_NEWS_DROP">> : i \in 1..n}
InitCache ==
  /\ InitRest({"America/New_York"}, {AllAlertConfigs})
  /\ sentAlerts \in {EarlierKeys(MaxSentAlerts - k) : k \in 0..CacheSlack}

\* ------------------------------------------------------------ SendAlertsJob
\* send-alerts.job.ts:44-47 and 75-78: the value the scan compares event dates
\* with, from the clock reading `now` of a worker in `tz`
TargetTime(now, add, tz) ==
  ParseAsUtc(FormatMinute00(tz, StartOfMinute(now + add)))

\* mutant: the query matches the events of the target's minute
FindManyInMinute(table, targetTime) ==
  {e \in table : e.date \div 60 = targetTime \div 60}

\* prisma.newsEvent.findMany({ where: { date: targetTime } })
FindMany(table, targetTime) == {e \in table : e.date = targetTime}

\* a query result as the list the loops walk, in id order
RECURSIVE SortById(_)
SortById(rows) ==
  IF rows = {} THEN <<>>
  ELSE LET first == CHOOSE r \in rows : \A o \in rows : r.id <= o.id
       IN <<first>> \o SortById(rows \ {first})

\* prisma.newsAlert.findMany({ where: { alertType: { has: alertType } } })
FindAlertConfigs(table, alertType) == {c \in table : alertType \in c.alertType}

\* mutant: an empty filter matches nothing
MatchesEventEmptyNone(config, event) ==
  event.currency \in config.currency /\ event.impact \in config.impact

\* send-alerts.job.ts:137-149: the in-memory filter
MatchesEvent(config, event) ==
  LET matchesCurrency == config.currency = {} \/ event.currency \in config.currency
      matchesImpact == config.impact = {} \/ event.impact \in config.impact
  IN matchesCurrency /\ matchesImpact

\* event.date.toISOString()
ToISOString(date) == [iso |-> date]

\* mutant: forecast and previous change places
PayloadSwapped(event, alertType, config) ==
  [title |-> event.title, country |-> event.currency, impact |-> event.impact,
   date |-> ToISOString(event.date), forecast |-> event.previous,
   previous |-> event.forecast, alertType |-> alertType,
   channelId |-> config.channelId, serverId |-> config.serverId]

\* send-alerts.job.ts:163-173: the payload of publishNewsAlert
Payload(event, alertType, config) ==
  [title |-> event.title, country |-> event.currency, impact |-> event.impact,
   date |-> ToISOString(event.date), forecast |-> event.forecast,
   previous |-> event.previous, alertType |-> alertType,
   channelId |-> config.channelId, serverId |-> config.serverId]

\* mutant: the cache is not consulted
SkipSentNoCheck(events, alertType, cache) == events

\* send-alerts.job.ts:117-119: the sendAlert calls of a loop that return at
\* once because their key is in the cache; the list from the first call
\* that goes on to query the NewsAlert table
RECURSIVE SkipSent(_, _, _)
SkipSent(events, alertType, cache) ==
  IF events = <<>> THEN <<>>
  ELSE IF AlertKey(Head(events), alertType) \in cache
       THEN SkipSent(Tail(events), alertType, cache)
       ELSE events

\* mutant: the threshold is off by one
CleanupOffByOne(cache) ==
  IF Cardinality(cache) > MaxSentAlerts + 1 THEN {} ELSE cache

\* send-alerts.job.ts:186-192
CleanupSentAlerts(cache) ==
  IF Cardinality(cache) > MaxSentAlerts THEN {} ELSE cache

\* send-alerts.job.ts:176-180
MarkSent(cache, key) == CleanupSentAlerts(cache \cup {key})

\* mutant: the key is marked after the first publish
AfterPublishEager(cache, key, remaining) == MarkSent(cache, key)

\* send-alerts.job.ts:162-180: the cache once a publish has resolved, with
\* `remaining` the configs the loop has still to publish to
AfterPublish(cache, key, remaining) ==
  IF remaining = <<>> THEN MarkSent(cache, key) ELSE cache

\* send-alerts.job.ts:75-87: sendOnNewsDropAlerts reads the clock and queries
EnterDropWindow(j, now, tz) ==
  [j EXCEPT !.pc = "drop_query", !.alertType = "ON_NEWS_DROP",
            !.target = TargetTime(now, 0, tz), !.readAt = now]

\* mutant: the on-drop window is entered while five-minute events wait
ContinueDropEarly(j, events, cache, now, tz) ==
  IF j.alertType = "FIVE_MINUTES_BEFORE"
  THEN EnterDropWindow([j EXCEPT !.pending = <<>>, !.configs = <<>>, !.callMsgs = <<>>],
                       now, tz)
  ELSE LET rest == SkipSent(events, j.alertType, cache)
       IN IF rest # <<>> THEN [j EXCEPT !.pending = rest, !.pc = "alert_query"]
          ELSE [j EXCEPT !.pc = "idle", !.result = "ok"]

\* The synchronous code from the return of one sendAlert call (or the start
\* of a loop) to the next await: `events` are the events still to be sent.
Continue(j, events, cache, now, tz) ==
  LET rest == SkipSent(events, j.alertType, cache)
      passed == {AlertKey(events[i], j.alertType) : i \in 1..(Len(events) - Len(rest))}
      j1 == [j EXCEPT !.pending = rest, !.configs = <<>>, !.callMsgs = <<>>,
                      !.skipped = @ \cup passed]
  IN IF rest # <<>> THEN [j1 EXCEPT !.pc = "alert_query"]
     ELSE IF j.alertType = "FIVE_MINUTES_BEFORE" THEN EnterDropWindow(j1, now, tz)
     ELSE [j1 EXCEPT !.pc = "idle", !.result = "ok"]

\* for the record: the publish of the execution's current event to the
\* config at the head of its list, and whether it resolved
Attempt(j, ok) ==
  <<Head(j.pending).id, j.alertType, Head(j.configs).id, ok>>

\* mutant: the event whose sendAlert call failed is tried again
OnSendAlertErrorRetry(j, cache, now, tz) ==
  Continue([j EXCEPT !.caught = @ \cup {AlertKey(Head(j.pending), j.alertType)}],
           j.pending, cache, now, tz)

\* mutant: an error inside sendAlert ends the scan
OnSendAlertErrorAbort(j, cache, now, tz) ==
  [j EXCEPT !.pc = "idle", !.result = "threw", !.pending = <<>>]

\* send-alerts.job.ts:181-183: the catch of sendAlert logs the error; the
\* call returns and the loop of the window goes on with the next event
OnSendAlertError(j, cache, now, tz) ==
  Continue([j EXCEPT !.caught = @ \cup {AlertKey(Head(j.pending), j.alertType)}],
           Tail(j.pending), cache, now, tz)

\* execute() up to the await of sendFiveMinuteAlerts' query (lines 26-52),
\* whoever calls it
Execute(x) ==
  /\ job[x].pc = "idle"
  /\ runs' = runs + 1
  /\ job' = [job EXCEPT ![x] =
       [IdleJob EXCEPT !.pc = "five_query", !.alertType = "FIVE_MINUTES_BEFORE",
                       !.target = TargetTime(clock, FiveMinutes, zone),
                       !.readAt = clock, !.began = clock, !.result = "running"]]
  /\ UNCHANGED <<clock, zone, newsEvents, newsAlerts, fetch, sentAlerts, published,
                 sentLog, lastDispatch, cleared, failures>>

BeginExecute(x) == Execute(x) /\ UNCHANGED sideVars

\* the query of sendFiveMinuteAlerts resolves (lines 52-69)
FiveQueryReturns(x) ==
  /\ job[x].pc = "five_query"
  /\ LET found == FindMany(newsEvents, job[x].target)
         j == [job[x] EXCEPT !.fiveEvents = {e.id : e \in found}]
     IN job' = [job EXCEPT ![x] = Continue(j, SortById(found), sentAlerts, clock, zone)]
  /\ UNCHANGED <<sideVars, clock, zone, newsEvents, newsAlerts, fetch, sentAlerts, published,
                 sentLog, lastDispatch, cleared, runs, failures>>

\* the query of sendOnNewsDropAlerts resolves (lines 83-106)
DropQueryReturns(x) ==
  /\ job[x].pc = "drop_query"
  /\ LET found == FindMany(newsEvents, job[x].target)
         j == [job[x] EXCEPT !.dropEvents = {e.id : e \in found}]
     IN job' = [job EXCEPT ![x] = Continue(j, SortById(found), sentAlerts, clock, zone)]
  /\ UNCHANGED <<sideVars, clock, zone, newsEvents, newsAlerts, fetch, sentAlerts, published,
                 sentLog, lastDispatch, cleared, runs, failures>>

\* a window's query rejects: execute logs and rethrows (lines 34-37)
WindowQueryFails(x) ==
  /\ job[x].pc \in {"five_query", "drop_query"}
  /\ failures < MaxFailures
  /\ failures' = failures + 1
  /\ job' = [job EXCEPT ![x] = [@ EXCEPT !.pc = "idle", !.result = "threw",
                                         !.pending = <<>>]]
  /\ UNCHANGED <<sideVars, clock, zone, newsEvents, newsAlerts, fetch, sentAlerts, published,
                 sentLog, lastDispatch, cleared, runs>>

\* sendAlert's NewsAlert query resolves (lines 123-160)
AlertQueryReturns(x) ==
  /\ job[x].pc = "alert_query"
  /\ LET event == Head(job[x].pending)
         allAlertConfigs == FindAlertConfigs(newsAlerts, job[x].alertType)
         alertConfigs == {c \in allAlertConfigs : MatchesEvent(c, event)}
     IN job' = [job EXCEPT ![x] =
          IF alertConfigs = {}
          THEN Continue([@ EXCEPT !.unmatched = @ \cup {AlertKey(event, job[x].alertType)}],
                        Tail(@.pending), sentAlerts, clock, zone)
          ELSE [@ EXCEPT !.pc = "publish", !.configs = SortById(alertConfigs)]]
  /\ UNCHANGED <<sideVars, clock, zone, newsEvents, newsAlerts, fetch, sentAlerts, published,
                 sentLog, lastDispatch, cleared, runs, failures>>

\* sendAlert's NewsAlert query rejects: caught and logged (lines 181-183)
AlertQueryFails(x) ==
  /\ job[x].pc = "alert_query"
  /\ failures < MaxFailures
  /\ failures' = failures + 1
  /\ job' = [job EXCEPT ![x] = OnSendAlertError(@, sentAlerts, clock, zone)]
  /\ UNCHANGED <<sideVars, clock, zone, newsEvents, newsAlerts, fetch, sentAlerts, published,
                 sentLog, lastDispatch, cleared, runs>>

\* publishNewsAlert resolves (lines 162-180): the next config, or the key is
\* marked as sent and the loop goes on
PublishReturns(x) ==
  /\ job[x].pc = "publish"
  /\ LET event == Head(job[x].pending)
         alertType == job[x].alertType
         config == Head(job[x].configs)
         msg == Payload(event, alertType, config)
         msgs == Append(job[x].callMsgs, msg)
         key == AlertKey(event, alertType)
         cache == AfterPublish(sentAlerts, key, Tail(job[x].configs))
     IN /\ published' = published (+) SetToBag({msg})
        /\ sentLog' = sentLog (+) SetToBag({<<event.id, alertType, config.id>>})
        /\ IF Tail(job[x].configs) # <<>>
           THEN /\ sentAlerts' = cache
                /\ job' = [job EXCEPT ![x] =
                             [@ EXCEPT !.configs = Tail(@), !.callMsgs = msgs,
                                       !.sent = @ \cup {key},
                                       !.attempts = Append(@, Attempt(job[x], TRUE))]]
                /\ UNCHANGED <<sideVars, lastDispatch, cleared>>
           ELSE /\ sentAlerts' = cache
                /\ cleared' = (cleared \/ key \notin cache)
                /\ lastDispatch' = [key |-> key, msgs |-> msgs]
                /\ job' = [job EXCEPT ![x] =
                             Continue([@ EXCEPT !.sent = @ \cup {key},
                                                !.attempts = Append(@, Attempt(job[x], TRUE))],
                                      Tail(@.pending), cache, clock, zone)]
  /\ UNCHANGED <<sideVars, clock, zone, newsEvents, newsAlerts, fetch, runs, failures>>

\* publishNewsAlert rejects: caught and logged, the key is not marked
PublishFails(x) ==
  /\ job[x].pc = "publish"
  /\ failures < MaxFailures
  /\ failures' = failures + 1
  /\ job' = [job EXCEPT ![x] =
       OnSendAlertError([@ EXCEPT !.attempts = Append(@, Attempt(job[x], FALSE))],
                        sentAlerts, clock, zone)]
  /\ UNCHANGED <<sideVars, clock, zone, newsEvents, newsAlerts, fetch, sentAlerts, published,
                 sentLog, lastDispatch, cleared, runs>>

\* ------------------------------------------------- FetchNewsJob as a process
\* fetch-news.job.ts:64-66: an item with an unknown currency is counted
OnInvalidCurrency(f) == [f EXCEPT !.skipped = @ + 1]

\* mutant: a rejected upsert is not counted
OnStoreErrorUncounted(f) == f

\* fetch-news.job.ts:113-116: the catch around one item
OnStoreError(f) == [f EXCEPT !.skipped = @ + 1]

\* fetch-news.job.ts:29-30, 40-47: the loop of execute takes the next market
\* of the list and fetchAndStoreNewsForMarket awaits getWeeklyNews for it,
\* its counters at zero
EnterMarket(f) ==
  [f EXCEPT !.pc = "fetching", !.items = <<>>, !.market = Head(f.todo),
            !.todo = Tail(f.todo), !.markets = @ \cup {Head(f.todo)},
            !.marketLog = Append(@, Head(f.todo)), !.calls = @ + 1,
            !.created = 0, !.skipped = 0]

\* mutant: a market whose fetch failed is passed over
OnFetchErrorSkip(f) ==
  IF f.todo = <<>> THEN [f EXCEPT !.pc = "idle", !.result = "ok"] ELSE EnterMarket(f)

\* mutant: the provider is asked again
OnFetchErrorRetry(f) == [f EXCEPT !.calls = @ + 1]

\* fetch-news.job.ts:122-125 and 34-37: logged and rethrown, twice
OnFetchError(f) == [f EXCEPT !.pc = "idle", !.result = "threw"]

\* The synchronous part of the loop over `items` (lines 56-67): items with
\* an unknown currency are skipped up to the first item that awaits its
\* upsert; at the end of the list the market is done, and execute goes on
\* to the next market or returns.
RECURSIVE FetchContinue(_, _)
FetchContinue(f, items) ==
  IF items = <<>>
  THEN IF f.todo = <<>> THEN [f EXCEPT !.pc = "idle", !.items = <<>>, !.result = "ok"]
       ELSE EnterMarket(f)
  ELSE IF ~IsCurrency(ToUpperCase(Head(items).country))
       THEN FetchContinue(OnInvalidCurrency(f), Tail(items))
       ELSE [f EXCEPT !.pc = "upsert", !.items = items]

\* fetch-news.job.ts:27  const markets = [Market.FOREX]
Markets == <<"FOREX">>

\* the list of line 27 and the four-market list of line 26 and the README
MarketLists == {Markets, <<"FOREX", "CRYPTO", "ENERGY", "METAL">>}
\* what getWeeklyNews({ market }) may answer: the calendar feeds for FOREX,
\* one entry named after the market for the others
MarketNews(market) ==
  <<[title |-> market, country |-> "usd", date |-> ProviderDate(2 * 60),
     impact |-> "Medium", forecast |-> "", previous |-> ""]>>
FeedsOf(market) == IF market = "FOREX" THEN Feeds ELSE {MarketNews(market)}

\* execute() up to the await of getWeeklyNews (lines 22-47) for the first
\* market of `list`; `markets` and `marketLog` record the markets
\* getWeeklyNews was called for
FetchBeginWith(x, list) ==
  /\ fetch[x].pc = "idle"
  /\ runs' = runs + 1
  /\ fetch' = [fetch EXCEPT ![x] =
       EnterMarket([IdleFetch EXCEPT !.result = "running", !.list = list, !.todo = list,
                         !.feed = fetch[x].feed, !.origin = fetch[x].origin,
                         !.resumed = (fetch[x].result = "interrupted"
                                        /\ fetch[x].writes > 0)])]
  /\ UNCHANGED <<sideVars, clock, zone, newsEvents, newsAlerts, sentAlerts, job, published,
                 sentLog, lastDispatch, cleared, failures>>

\* execute() with the markets of line 27
FetchBegin(x) == FetchBeginWith(x, Markets)

\* no other execution of FetchNewsJob.execute is under way
Alone(x) == \A y \in Exec \ {x} : fetch[y].pc = "idle"

\* getWeeklyNews resolves (lines 45-67).  For the record of an execution
\* that runs alone, `origin` is the table as it was when the execution's
\* provider data was first worked on.
ProviderReturns(x) ==
  /\ fetch[x].pc = "fetching"
  /\ \E news \in FeedsOf(fetch[x].market) :
       fetch' = [fetch EXCEPT ![x] =
         FetchContinue([@ EXCEPT !.feed = news,
                                 !.origin = IF ~Alone(x) THEN {}
                                            ELSE IF fetch[x].feed = news THEN @
                                            ELSE newsEvents,
                                 !.resumed = @ /\ fetch[x].feed = news],
                       news)]
  /\ UNCHANGED <<sideVars, clock, zone, newsEvents, newsAlerts, sentAlerts, job, published,
                 sentLog, lastDispatch, cleared, runs, failures>>

\* getWeeklyNews rejects (lines 122-125, 34-37)
ProviderFails(x) ==
  /\ fetch[x].pc = "fetching"
  /\ failures < MaxFailures
  /\ failures' = failures + 1
  /\ fetch' = [fetch EXCEPT ![x] = OnFetchError(@)]
  /\ UNCHANGED <<sideVars, clock, zone, newsEvents, newsAlerts, sentAlerts, job, published,
                 sentLog, lastDispatch, cleared, runs>>

\* prisma.newsEvent.upsert resolves (lines 85-112)
UpsertReturns(x) ==
  /\ fetch[x].pc = "upsert"
  /\ LET newsItem == Head(fetch[x].items)
         hit == {r \in newsEvents :
                   SameIdentity(r, newsItem.title, EventDate(newsItem),
                                ToUpperCase(newsItem.impact), ToUpperCase(newsItem.country))}
     IN /\ newsEvents' = Upsert(newsEvents, newsItem)
        /\ fetch' = [fetch EXCEPT ![x] =
             FetchContinue([@ EXCEPT !.created = @ + 1, !.writes = @ + 1,
                                     !.upserted = @ \cup {newsItem},
                                     !.hits = IF hit # {} THEN @ + 1 ELSE @,
                                     !.overActual = @ \/ \E r \in hit : r.actual # "",
                                     !.raced = @ \/ \E y \in Exec \ {x} :
                                        /\ fetch[y].pc = "upsert"
                                        /\ ItemIdentity(Head(fetch[y].items))
                                             = ItemIdentity(newsItem)],
                           Tail(fetch[x].items))]
  /\ UNCHANGED <<sideVars, clock, zone, newsAlerts, sentAlerts, job, published,
                 sentLog, lastDispatch, cleared, runs, failures>>

\* prisma.newsEvent.upsert rejects (lines 113-116)
UpsertFails(x) ==
  /\ fetch[x].pc = "upsert"
  /\ failures < MaxFailures
  /\ failures' = failures + 1
  /\ fetch' = [fetch EXCEPT ![x] =
       FetchContinue(OnStoreError([@ EXCEPT !.rejected = @ + 1]), Tail(fetch[x].items))]
  /\ UNCHANGED <<sideVars, clock, zone, newsEvents, newsAlerts, sentAlerts, job, published,
                 sentLog, lastDispatch, cleared, runs>>

\* the events whose actual value the provider has released
Released == {"CPI"}

\* The Check Actuals job finds the released value of an unprocessed event.
CheckActuals ==
  /\ \E row \in newsEvents :
       /\ ~row.isProcessed
       /\ row.title \in Released
       /\ newsEvents' = (newsEvents \ {row}) \cup
                          {[row EXCEPT !.actual = "0.5%", !.isProcessed = TRUE]}
  /\ UNCHANGED <<sideVars, clock, zone, newsAlerts, fetch, sentAlerts, job, published,
                 sentLog, lastDispatch, cleared, runs, failures>>

\* The process is shut down: the executions under way are abandoned, the
\* upserts already committed remain.
Shutdown ==
  /\ \E x \in Exec : fetch[x].pc # "idle"
  /\ fetch' = [x \in Exec |->
       IF fetch[x].pc = "idle" THEN fetch[x]
       ELSE [fetch[x] EXCEPT !.pc = "idle", !.items = <<>>, !.result = "interrupted"]]
  /\ UNCHANGED <<sideVars, clock, zone, newsEvents, newsAlerts, sentAlerts, job, published,
                 sentLog, lastDispatch, cleared, runs, failures>>

\* The scheduler, or an operator by hand, starts a sync.  Executions are
\* numbered as they overlap: number 2 is one begun while number 1 is under way.
StartFetch(x) ==
  /\ runs < MaxRuns
  /\ x = 1 \/ fetch[1].pc # "idle"
  /\ FetchBegin(x)

\* the worker on a new database, or on one a sync has filled
InitFetch ==
  /\ InitSide
  /\ clock = 0
  /\ zone = "America/New_York"
  /\ newsEvents \in {{}, StoreNews({}, WeeklyNews)}
  /\ newsAlerts = AllAlertConfigs
  /\ fetch = [x \in Exec |-> IdleFetch]
  /\ sentAlerts = {}
  /\ job = [x \in Exec |-> IdleJob]
  /\ published = EmptyBag
  /\ sentLog = EmptyBag
  /\ lastDispatch = [key |-> <<0, "none">>, msgs |-> <<>>]
  /\ cleared = FALSE
  /\ runs = 0
  /\ failures = 0

\* ingestion runs that may overlap, with provider and store failures and the
\* actuals checker at work
NextFetch ==
  \/ \E x \in Exec : StartFetch(x)
  \/ \E x \in Exec : ProviderReturns(x)
  \/ \E x \in Exec : ProviderFails(x)
  \/ \E x \in Exec : UpsertReturns(x)
  \/ \E x \in Exec : UpsertFails(x)
  \/ CheckActuals
SpecFetch == InitFetch /\ [][NextFetch]_vars

\* one ingestion run at a time, cut short by shutdowns, no failure
NextRestart ==
  \/ StartFetch(1)
  \/ ProviderReturns(1)
  \/ UpsertReturns(1)
  \/ Shutdown
SpecRestart == InitFetch /\ [][NextRestart]_vars

\* one ingestion run at a time over a list of markets, with provider
\* failures
StartMarkets ==
  /\ runs < MaxRuns
  /\ \E list \in MarketLists : FetchBeginWith(1, list)
NextMarkets ==
  \/ StartMarkets
  \/ ProviderReturns(1)
  \/ ProviderFails(1)
  \/ UpsertReturns(1)
SpecMarkets == InitFetch /\ [][NextMarkets]_vars

\* time passes
Tick ==
  /\ clock < MaxTicks * TickSeconds
  /\ clock' = clock + TickSeconds
  /\ UNCHANGED <<sideVars, zone, newsEvents, newsAlerts, fetch, sentAlerts, job, published,
                 sentLog, lastDispatch, cleared, runs, failures>>

\* the scheduler starts a run
StartRun(x) == runs < MaxRuns /\ BeginExecute(x)

\* one execution at a time: a run begins when the previous one has returned
Next ==
  \/ Tick
  \/ StartRun(1)
  \/ FiveQueryReturns(1)
  \/ DropQueryReturns(1)
  \/ WindowQueryFails(1)
  \/ AlertQueryReturns(1)
  \/ AlertQueryFails(1)
  \/ PublishReturns(1)
  \/ PublishFails(1)

Spec == Init /\ [][Next]_vars
SpecCache == InitCache /\ [][Next]_vars

\* The cadence of the README: one scan in every minute, begun and finished
\* within the minute, and no query or publish fails.
ScannedThisMinute ==
  runs > 0 /\ StartOfMinute(job[1].began) = StartOfMinute(clock)
CadenceTick ==
  /\ job[1].pc = "idle"
  /\ ScannedThisMinute \/ StartOfMinute(clock + TickSeconds) = StartOfMinute(clock)
  /\ Tick
CadenceBegin == ~ScannedThisMinute /\ BeginExecute(1)
NextCadence ==
  \/ CadenceTick
  \/ CadenceBegin
  \/ FiveQueryReturns(1)
  \/ DropQueryReturns(1)
  \/ AlertQueryReturns(1)
  \/ PublishReturns(1)
SpecCadence == Init /\ [][NextCadence]_vars

\* ------------------------------------------------------------ the scheduler
\* mutant: the timer does not look at the scan under way
ScanUnderWayNever == FALSE

\* single-flight: a scan of SendAlertsJob has been started and has not returned
ScanUnderWay == \E x \in Exec : job[x].pc # "idle"

\* The one-minute timer of SendAlertsJob fires, once in a minute: the tick
\* is skipped when a scan is under way, and starts a scan otherwise.
TimerFires ==
  /\ timer.fired < clock \div 60
  /\ runs < MaxRuns
  /\ IF ScanUnderWay
     THEN /\ timer' = [fired |-> clock \div 60, skipped |-> timer.skipped + 1]
          /\ UNCHANGED <<clock, zone, newsEvents, newsAlerts, fetch, sentAlerts, job,
                         published, sentLog, lastDispatch, cleared, runs, failures,
                         hashLog, consumer, web, swept, sched, bot>>
     ELSE /\ timer' = [timer EXCEPT !.fired = clock \div 60]
          /\ \E x \in Exec :
               /\ job[x].pc = "idle"
               /\ \A y \in Exec : job[y].pc = "idle" => x <= y
               /\ Execute(x)
          /\ UNCHANGED <<hashLog, consumer, web, swept, sched, bot>>

\* the worker under its scheduler, no query or publish failing
NextSingleFlight ==
  \/ Tick
  \/ TimerFires
  \/ FiveQueryReturns(1)
  \/ DropQueryReturns(1)
  \/ AlertQueryReturns(1)
  \/ PublishReturns(1)
SpecSingleFlight == Init /\ [][NextSingleFlight]_vars

\* execute is called while an earlier call has not returned: the two
\* executions interleave at their awaits
TickOverlap == clock < OverlapTicks * TickSeconds /\ Tick
NextOverlap ==
  \/ TickOverlap
  \/ \E x \in Exec : StartRun(x)
  \/ \E x \in Exec : FiveQueryReturns(x)
  \/ \E x \in Exec : DropQueryReturns(x)
  \/ \E x \in Exec : AlertQueryReturns(x)
  \/ \E x \in Exec : PublishReturns(x)
  \/ \E x \in Exec : PublishFails(x)
\* the two subscriptions of server S1: one channel takes both alert types,
\* the other the high-impact reminders
OverlapTable == {c \in AllAlertConfigs : c.serverId = "S1"}
SpecOverlap == InitRest({"America/New_York"}, {OverlapTable}) /\ sentAlerts = {}
                 /\ [][NextOverlap]_vars

\* ------------------------------------------------- generateNewsEventHash
\* A string is the sequence of its characters.  The parameters are typed
\* string: a title or a date may be empty, hold a letter or hold the bar.
FieldStrings == {<<>>, <<"a">>, <<"|">>}
ImpactStrings == {<<"H">>, <<"L">>}
CurrencyStrings == {<<"U">>}
\* `${title}|${date}|${impact}|${currency}`; the digest is sha256 of it
HashInput(title, date, impact, currency) ==
  title \o <<"|">> \o date \o <<"|">> \o impact \o <<"|">> \o currency
generateNewsEventHash(title, date, impact, currency) ==
  /\ Len(hashLog) < MaxHashCalls
  /\ hashLog' = Append(hashLog, [title |-> title, date |-> date, impact |-> impact,
                                 currency |-> currency,
                                 hashInput |-> HashInput(title, date, impact, currency)])
  /\ UNCHANGED <<clock, zone, newsEvents, newsAlerts, fetch, sentAlerts, job, published,
                 sentLog, lastDispatch, cleared, runs, failures, timer, consumer, web, swept, sched, bot>>
NextHash ==
  \E title, date \in FieldStrings : \E impact \in ImpactStrings :
    \E currency \in CurrencyStrings : generateNewsEventHash(title, date, impact, currency)
SpecHash == InitRest({"UTC"}, {AllAlertConfigs}) /\ sentAlerts = {} /\ [][NextHash]_vars

\* -------------------------------------------- the news_alerts consumer
\* the worker's own state, which the consumer and the dashboard leave alone
workerVars == <<clock, zone, newsEvents, newsAlerts, fetch, sentAlerts, job, published,
                sentLog, lastDispatch, cleared, runs, failures>>

\* a message reaches the news_alerts queue
Queued ==
  /\ Len(consumer.at) < MaxQueued
  /\ consumer' = [consumer EXCEPT !.at = Append(@, "ready"), !.sends = Append(@, 0)]
  /\ UNCHANGED <<workerVars, timer, hashLog, web, swept, sched, bot>>

\* the broker hands message m to the callback, which parses it and awaits
\* client.channels.fetch(alert.channelId)
Delivered(m) ==
  /\ consumer.at[m] = "ready"
  /\ consumer' = [consumer EXCEPT !.at[m] = "fetching"]
  /\ UNCHANGED <<workerVars, timer, hashLog, web, swept, sched, bot>>

\* mutant: the callback acknowledges in a finally block
OnDeliveryErrorAck(stage) == "acked"

\* an await of the callback rejects: the callback ends before channel.ack
OnDeliveryError(stage) == "unacked"

FetchResolves(m) ==
  /\ consumer.at[m] = "fetching"
  /\ consumer' = [consumer EXCEPT !.at[m] = "sending"]
  /\ UNCHANGED <<workerVars, timer, hashLog, web, swept, sched, bot>>

FetchRejects(m) ==
  /\ consumer.at[m] = "fetching"
  /\ consumer' = [consumer EXCEPT !.at[m] = OnDeliveryError(@)]
  /\ UNCHANGED <<workerVars, timer, hashLog, web, swept, sched, bot>>

\* channel.send resolves: the embed is in the Discord channel, then ack(msg)
SendResolves(m) ==
  /\ consumer.at[m] = "sending"
  /\ consumer' = [consumer EXCEPT !.at[m] = "acked", !.sends[m] = @ + 1]
  /\ UNCHANGED <<workerVars, timer, hashLog, web, swept, sched, bot>>

SendRejects(m) ==
  /\ consumer.at[m] = "sending"
  /\ consumer' = [consumer EXCEPT !.at[m] = OnDeliveryError(@)]
  /\ UNCHANGED <<workerVars, timer, hashLog, web, swept, sched, bot>>

\* the AMQP channel closes: the broker requeues what was delivered and not
\* acknowledged
ChannelCloses ==
  /\ consumer.closes < MaxCloses
  /\ consumer' = [consumer EXCEPT
        !.at = [m \in DOMAIN @ |-> IF @[m] = "acked" THEN "acked" ELSE "ready"],
        !.closes = @ + 1]
  /\ UNCHANGED <<workerVars, timer, hashLog, web, swept, sched, bot>>

NextConsumer ==
  \/ Queued
  \/ ChannelCloses
  \/ \E m \in DOMAIN consumer.at :
       \/ Delivered(m)
       \/ FetchResolves(m)
       \/ FetchRejects(m)
       \/ SendResolves(m)
       \/ SendRejects(m)
SpecConsumer == InitRest({"UTC"}, {AllAlertConfigs}) /\ sentAlerts = {} /\ [][NextConsumer]_vars

\* ------------------------------------------------ the dashboard backend
\* The guilds Discord may report for the signed-in user, with the user's
\* permission bits in each: the owner, an administrator (0x8), a manager of
\* the server (0x20), and a member who may only manage channels (0x10).
\* Discord sends the permissions as a string of decimal digits, written here
\* as the sequence of its digits.
DiscordGuilds == {
  [id |-> "G1", owner |-> TRUE, permissions |-> <<0>>],
  [id |-> "G2", owner |-> FALSE, permissions |-> <<8>>],
  [id |-> "G3", owner |-> FALSE, permissions |-> <<3, 2>>],
  [id |-> "G4", owner |-> FALSE, permissions |-> <<1, 6>>] }
\* the guildId inputs: the four guilds and one the user is not in
GuildIds == {"G1", "G2", "G3", "G4", "G5"}
\* what prisma.account.findFirst may hold for the user: no row, or a row
\* whose accessToken is null, empty or a token and whose accessTokenExpiresAt
\* is null (<<>>) or a time just before, at or just after the clock's start
AccountRows ==
  [row : {TRUE}, accessToken : {"null", "", "token"},
   accessTokenExpiresAt : {<<>>, <<-1>>, <<0>>, <<1>>}]
Accounts == {NoAccount} \cup AccountRows

\* BigInt(permissions): the number a string of decimal digits denotes
RECURSIVE BigInt(_)
BigInt(digits) ==
  IF digits = <<>> THEN 0
  ELSE 10 * BigInt(SubSeq(digits, 1, Len(digits) - 1)) + digits[Len(digits)]

\* mutant: only the Administrator bit counts
hasAdministratorOnly(permissions) == (BigInt(permissions) \div 8) % 2 = 1

\* mutant: the expiry of the token is not looked at
getUserDiscordAccountAnyExpiry(account, now) ==
  IF ~account.row THEN "No Discord account found"
  ELSE IF account.accessToken \in {"null", ""} THEN "No access token available"
  ELSE "ok"

\* (permissionBits & bit) === bit, for a single bit
HasBit(permissions, bit) == (permissions \div bit) % 2 = 1
\* discord.service.ts hasAdminPermission
hasAdminPermission(permissions) ==
  LET permissionBits == BigInt(permissions)
  IN HasBit(permissionBits, 8) \/ HasBit(permissionBits, 32)
\* discord.service.ts filterAdminGuilds
filterAdminGuilds(guilds) == {g \in guilds : g.owner \/ hasAdminPermission(g.permissions)}
\* discord.service.ts getUserDiscordAccount: "ok" when the account is
\* returned, and the message of the Error thrown otherwise
getUserDiscordAccount(account, now) ==
  IF ~account.row THEN "No Discord account found"
  ELSE IF account.accessToken \in {"null", ""} THEN "No access token available"
  ELSE IF account.accessTokenExpiresAt # <<>> /\ account.accessTokenExpiresAt[1] < now
  THEN "Access token expired. Please re-authenticate."
  ELSE "ok"
AccountResolves == getUserDiscordAccount(web.account, clock) = "ok"
\* the answer of a procedure whose try block threw: the catch rethrows the
\* message; calls counts the requests made to the Discord API
Thrown(answer, message, calls) ==
  [procedure |-> answer.procedure, guildId |-> answer.guildId, result |-> "error",
   error |-> message, calls |-> calls]

\* the user signs in with Discord, or the stored token or the memberships change
SignIn(account, guilds) ==
  /\ web' = [account |-> account, guilds |-> guilds, answer |-> [procedure |-> "none"]]
  /\ web' # web
  /\ UNCHANGED <<workerVars, timer, hashLog, consumer, swept, sched, bot>>

getMyGuilds ==
  /\ web' = [web EXCEPT !.answer =
       IF ~AccountResolves
       THEN [procedure |-> "getMyGuilds", result |-> "error",
             error |-> getUserDiscordAccount(web.account, clock), calls |-> 0]
       ELSE [procedure |-> "getMyGuilds", result |-> "ok", calls |-> 1,
             guilds |-> filterAdminGuilds(web.guilds)]]
  /\ web' # web
  /\ UNCHANGED <<workerVars, timer, hashLog, consumer, swept, sched, bot>>

getGuildDetails(guildId) ==
  /\ LET guild == {g \in web.guilds : g.id = guildId}
         this == [procedure |-> "getGuildDetails", guildId |-> guildId]
     IN web' = [web EXCEPT !.answer =
          IF ~AccountResolves
          THEN Thrown(this, getUserDiscordAccount(web.account, clock), 0)
          ELSE IF guild = {}
          THEN Thrown(this, "Guild not found or you don't have access", 1)
          ELSE IF \E g \in guild : ~g.owner /\ ~hasAdminPermission(g.permissions)
          THEN Thrown(this, "You need admin permissions to manage this server", 1)
          ELSE [procedure |-> "getGuildDetails", guildId |-> guildId, result |-> "ok",
                calls |-> 1]]
  /\ web' # web
  /\ UNCHANGED <<workerVars, timer, hashLog, consumer, swept, sched, bot>>

getGuildSchedules(guildId) ==
  /\ LET guild == {g \in web.guilds : g.id = guildId}
         this == [procedure |-> "getGuildSchedules", guildId |-> guildId]
     IN web' = [web EXCEPT !.answer =
          IF ~AccountResolves
          THEN Thrown(this, getUserDiscordAccount(web.account, clock), 0)
          ELSE IF guild = {}
          THEN Thrown(this, "Guild not found or you don't have access", 1)
          ELSE [procedure |-> "getGuildSchedules", guildId |-> guildId, result |-> "ok",
                calls |-> 1]]
  /\ web' # web
  /\ UNCHANGED <<workerVars, timer, hashLog, consumer, swept, sched, bot>>

NextWeb ==
  \/ \E account \in Accounts : \E guilds \in SUBSET DiscordGuilds : SignIn(account, guilds)
  \/ getMyGuilds
  \/ \E guildId \in GuildIds : getGuildDetails(guildId)
  \/ \E guildId \in GuildIds : getGuildSchedules(guildId)
SpecWeb == InitRest({"UTC"}, {AllAlertConfigs}) /\ sentAlerts = {} /\ [][NextWeb]_vars

\* the permission check over every permission integer up to MaxPermission:
\* the string Discord sends for a permission integer
RECURSIVE Decimal(_)
Decimal(n) == IF n < 10 THEN <<n>> ELSE Decimal(n \div 10) \o <<n % 10>>
\* a guild of the user, as owner or not, with any permission integer
PermissionGuilds(id) ==
  {[id |-> id, owner |-> owner, permissions |-> Decimal(n)] :
     owner \in BOOLEAN, n \in 0..MaxPermission}
\* a user with a token that does not expire signs in once
TokenAccount == [row |-> TRUE, accessToken |-> "token", accessTokenExpiresAt |-> <<>>]
NextPermissions ==
  \/ /\ web.account = NoAccount
     /\ \E g \in PermissionGuilds("G1") : \E h \in PermissionGuilds("G2") :
          SignIn(TokenAccount, {g, h})
  \/ getMyGuilds
SpecPermissions ==
  InitRest({"UTC"}, {AllAlertConfigs}) /\ sentAlerts = {} /\ [][NextPermissions]_vars

\* --------------------------------------------------- the retention sweep
DaySeconds == 24 * 3600
\* README, Cleanup Job: processed events older than 30 days, stale
\* unprocessed events of 60 days and more
ProcessedRetentionDays == 30
UnprocessedRetentionDays == 60
\* the ages, in days, of the rows a long-running worker's table may hold
RowAges == {29, 31, 45, 59, 61}
OldRow(age, processed) ==
  [id |-> 2 * age + (IF processed THEN 1 ELSE 0),
   title |-> IF processed THEN "CPI" ELSE "GDP", currency |-> "USD",
   date |-> -(age * DaySeconds), impact |-> "HIGH", forecast |-> "0.3%",
   previous |-> "0.2%", actual |-> IF processed THEN "0.4%" ELSE "",
   isProcessed |-> processed, source |-> "ForexFactory"]
OldRows == {OldRow(age, processed) : age \in RowAges, processed \in BOOLEAN}
OldTables == {t \in SUBSET OldRows : Cardinality(t) <= MaxOldRows}

\* mutant: only processed events are swept
ExpiredProcessedOnly(event, now) ==
  event.isProcessed /\ event.date < now - ProcessedRetentionDays * DaySeconds

\* the two deletions of the cleanup job
Expired(event, now) ==
  \/ event.isProcessed /\ event.date < now - ProcessedRetentionDays * DaySeconds
  \/ ~event.isProcessed /\ event.date < now - UnprocessedRetentionDays * DaySeconds

\* the weekly run of the cleanup job
CleanupExecute ==
  /\ swept.count < MaxSweeps
  /\ newsEvents' = {e \in newsEvents : ~Expired(e, clock)}
  /\ swept' = [count |-> swept.count + 1,
               deleted |-> {e.id : e \in {d \in newsEvents : Expired(d, clock)}}]
  /\ UNCHANGED <<clock, zone, newsAlerts, fetch, sentAlerts, job, published, sentLog,
                 lastDispatch, cleared, runs, failures, timer, hashLog, consumer, web,
                 sched, bot>>

\* a day goes by between two runs
DayPasses ==
  /\ clock < MaxDays * DaySeconds
  /\ clock' = clock + DaySeconds
  /\ UNCHANGED <<zone, newsEvents, newsAlerts, fetch, sentAlerts, job, published, sentLog,
                 lastDispatch, cleared, runs, failures, sideVars>>

InitCleanup ==
  /\ InitSide
  /\ clock = 0
  /\ zone = "UTC"
  /\ newsEvents \in OldTables
  /\ newsAlerts = AllAlertConfigs
  /\ sentAlerts = {}
  /\ job = [x \in Exec |-> IdleJob]
  /\ fetch = [x \in Exec |-> IdleFetch]
  /\ published = EmptyBag
  /\ sentLog = EmptyBag
  /\ lastDispatch = [key |-> <<0, "none">>, msgs |-> <<>>]
  /\ cleared = FALSE
  /\ runs = 0
  /\ failures = 0
NextCleanup == CleanupExecute \/ DayPasses
SpecCleanup == InitCleanup /\ [][NextCleanup]_vars

\* --------------------------------------------- CheckSchedulesJob as a process
\* check-schedules.job.ts:28-34: the hour and minute of the New York wall clock
NyHourMinute(now) ==
  LET wall == WallClock("America/New_York", now)
  IN <<(wall \div 3600) % 24, (wall \div 60) % 60>>

\* the lists scheduleService.getSchedulesForTime may answer, in id order
ScheduleLists == {SortById(t) : t \in SUBSET Schedules}

\* The synchronous code from the return of one processSchedule call (or the
\* start of the loop) to the next await of the news service: for a schedule
\* whose scope the switch does not know getNewsForSchedule answers [] and
\* processSchedule returns (lines 66-71, 100-101).
RECURSIVE SchedulesContinue(_, _)
SchedulesContinue(s, schedules) ==
  IF schedules = <<>> THEN [s EXCEPT !.pc = "idle", !.pending = <<>>, !.result = "ok"]
  ELSE IF Head(schedules).newsScope \notin {"DAILY", "WEEKLY", "TOMORROW"}
       THEN SchedulesContinue([s EXCEPT !.news[Head(schedules).id] = "empty",
                                        !.outcome[Head(schedules).id] = "no_news"],
                              Tail(schedules))
       ELSE [s EXCEPT !.pc = "news", !.pending = schedules]

\* mutant: an error of processSchedule is thrown on to execute
OnProcessScheduleErrorThrow(s, how) ==
  [s EXCEPT !.outcome[Head(s.pending).id] = how, !.failures = @ + 1,
            !.pc = "idle", !.pending = <<>>, !.result = "threw"]

\* check-schedules.job.ts:77-82: the catch of processSchedule logs the
\* error; the call returns and the loop of execute goes on
OnProcessScheduleError(s, how) ==
  SchedulesContinue([s EXCEPT !.outcome[Head(s.pending).id] = how, !.failures = @ + 1],
                    Tail(s.pending))

\* execute() up to the await of getSchedulesForTime (lines 25-43)
SchedulesBegin ==
  /\ sched.pc = "idle"
  /\ sched.runs < MaxRuns
  /\ sched' = [IdleSchedules EXCEPT !.pc = "query", !.at = NyHourMinute(clock),
                                    !.runs = sched.runs + 1,
                                    !.failures = sched.failures, !.result = "running"]
  /\ UNCHANGED <<workerVars, timer, hashLog, consumer, web, swept, bot>>

\* getSchedulesForTime resolves (lines 40-55)
SchedulesQueryReturns ==
  /\ sched.pc = "query"
  /\ \E matchingSchedules \in ScheduleLists :
       sched' = SchedulesContinue(
                  [sched EXCEPT !.queried = TRUE,
                                !.matched = {matchingSchedules[i].id :
                                               i \in 1..Len(matchingSchedules)}],
                  matchingSchedules)
  /\ UNCHANGED <<workerVars, timer, hashLog, consumer, web, swept, bot>>

\* getSchedulesForTime rejects: logged and rethrown (lines 56-59)
SchedulesQueryFails ==
  /\ sched.pc = "query"
  /\ sched.failures < MaxFailures
  /\ sched' = [sched EXCEPT !.pc = "idle", !.result = "threw", !.failures = @ + 1]
  /\ UNCHANGED <<workerVars, timer, hashLog, consumer, web, swept, bot>>

\* the news service resolves with news (lines 64-73)
NewsReturns ==
  /\ sched.pc = "news"
  /\ sched' = [sched EXCEPT !.pc = "publish", !.news[Head(sched.pending).id] = "some"]
  /\ UNCHANGED <<workerVars, timer, hashLog, consumer, web, swept, bot>>

\* the news service resolves with no news (lines 66-71)
NewsReturnsNone ==
  /\ sched.pc = "news"
  /\ sched' = SchedulesContinue(
                [sched EXCEPT !.news[Head(sched.pending).id] = "empty",
                              !.outcome[Head(sched.pending).id] = "no_news"],
                Tail(sched.pending))
  /\ UNCHANGED <<workerVars, timer, hashLog, consumer, web, swept, bot>>

\* the news service rejects
NewsFails ==
  /\ sched.pc = "news"
  /\ sched.failures < MaxFailures
  /\ sched' = OnProcessScheduleError(sched, "news_failed")
  /\ UNCHANGED <<workerVars, timer, hashLog, consumer, web, swept, bot>>

\* publishScheduleTask returns (lines 73-76)
PublishTaskReturns ==
  /\ sched.pc = "publish"
  /\ sched' = SchedulesContinue(
                [sched EXCEPT !.tasks[Head(sched.pending).id] = @ + 1,
                              !.outcome[Head(sched.pending).id] = "published"],
                Tail(sched.pending))
  /\ UNCHANGED <<workerVars, timer, hashLog, consumer, web, swept, bot>>

\* publishScheduleTask throws
PublishTaskFails ==
  /\ sched.pc = "publish"
  /\ sched.failures < MaxFailures
  /\ sched' = OnProcessScheduleError(sched, "publish_failed")
  /\ UNCHANGED <<workerVars, timer, hashLog, consumer, web, swept, bot>>

NextSchedules ==
  \/ SchedulesBegin
  \/ SchedulesQueryReturns
  \/ SchedulesQueryFails
  \/ NewsReturns
  \/ NewsReturnsNone
  \/ NewsFails
  \/ PublishTaskReturns
  \/ PublishTaskFails
SpecSchedules ==
  InitRest({"UTC"}, {AllAlertConfigs}) /\ sentAlerts = {} /\ [][NextSchedules]_vars

\* ---------------------------------------------------------------- claims
\* the subscriptions a fired event is due to, as the design states them
Due(event, alertType, table) ==
  {c \in table : /\ alertType \in c.alertType
                 /\ (c.currency = {} \/ event.currency \in c.currency)
                 /\ (c.impact = {} \/ event.impact \in c.impact)}
EventOf(id) == CHOOSE e \in newsEvents : e.id = id
Copies(id, alertType, configId) == CopiesIn(<<id, alertType, configId>>, sentLog)

Range(seq) == {seq[i] : i \in 1..Len(seq)}
Dispatched == lastDispatch.key[2] \in AlertTypes

\* C1: while the sent-alert cache has never been cleared, no (event, alert
\* type, subscription) triple has had a message published more than once.
C1_AtMostOncePerTriple ==
  ~cleared => \A t \in BagToSet(sentLog) : CopiesIn(t, sentLog) <= 1

\* C2: once a dispatch for a key has completed (the key is in the cache), no
\* step publishes a message for that key until the cache is cleared.
C2_NoPublishOnceSent ==
  [][\A t \in BagToSet(sentLog') :
       CopiesIn(t, sentLog') > CopiesIn(t, sentLog) => <<t[1], t[2]>> \notin sentAlerts]_vars
\* a sendAlert call met its key in the cache and returned
C2_Witness == \E x \in Exec : job[x].skipped # {}

\* C3: a key is in the cache only if a message for it was published for
\* every subscription the event is due to, and there is at least one.
C3_SentOnlyIfPublished ==
  \A k \in sentAlerts :
    LET due == Due(EventOf(k[1]), k[2], newsAlerts)
    IN due # {} /\ \A c \in due : Copies(k[1], k[2], c.id) >= 1
\* a key is cached after a fan-out to two subscriptions, and a publish failed
C3_Witness ==
  /\ failures > 0
  /\ \E k \in sentAlerts : Cardinality(Due(EventOf(k[1]), k[2], newsAlerts)) >= 2

\* C4: the cache never holds more than 1000 keys, and an insertion that
\* takes the count above 1000 empties it.
C4_CacheBounded ==
  /\ [](Cardinality(sentAlerts) <= MaxSentAlerts)
  /\ [][(sentAlerts' # sentAlerts /\ Cardinality(sentAlerts) + 1 > MaxSentAlerts)
          => sentAlerts' = {}]_vars
\* the cache was cleared by an insertion
C4_Witness == cleared /\ sentAlerts = {}

\* C5: a scan that began in minute N sent as FIVE_MINUTES_BEFORE exactly the
\* events stored at N + 5 minutes and as ON_NEWS_DROP exactly those at N.
C5_WindowsOfOneNow ==
  \A x \in Exec :
    job[x].result = "ok" =>
      LET n == StartOfMinute(job[x].began)
      IN /\ job[x].fiveEvents =
              {e.id : e \in FindMany(newsEvents, WallClock(zone, n + FiveMinutes))}
         /\ job[x].dropEvents = {e.id : e \in FindMany(newsEvents, WallClock(zone, n))}

\* C6: no execution publishes messages for the same event under both alert
\* types.
C6_ClassesDisjoint ==
  \A x \in Exec : \A e \in newsEvents :
    ~(/\ <<e.id, "FIVE_MINUTES_BEFORE">> \in job[x].sent
      /\ <<e.id, "ON_NEWS_DROP">> \in job[x].sent)

\* C7: the value a window queries is the value FetchNewsJob stores for an
\* event at the minute of the clock reading (plus 5 minutes for window A).
C7_TargetAsStored ==
  \A x \in Exec :
    job[x].pc \in {"five_query", "drop_query"} =>
      LET add == IF job[x].alertType = "FIVE_MINUTES_BEFORE" THEN FiveMinutes ELSE 0
          at == StartOfMinute(job[x].readAt) + add
      IN job[x].target = EventDate([date |-> ProviderDate(at)])

\* C8: with one scan in every minute and no failure, once the minute five
\* minutes before a stored event has passed, its FIVE_MINUTES_BEFORE message
\* is published to every subscription it is due to, and once its own minute
\* has passed, its ON_NEWS_DROP message.
C8_NoEventLost ==
  \A i \in 1..Len(WeeklyNews), alertType \in AlertTypes :
    LET item == WeeklyNews[i]
        at == StartOfMinute(ParseDate(item.date))
        scanAt == IF alertType = "FIVE_MINUTES_BEFORE" THEN at - FiveMinutes ELSE at
        rows == {e \in newsEvents :
                   SameIdentity(e, item.title, EventDate(item),
                                ToUpperCase(item.impact), ToUpperCase(item.country))}
    IN (scanAt >= 0 /\ clock >= scanAt + 60) =>
         \A e \in rows : \A c \in Due(e, alertType, newsAlerts) :
            Copies(e.id, alertType, c.id) >= 1

\* C9: the subscriptions that receive a message for a fired event are
\* exactly those that want the alert type and whose currency and impact
\* filters are empty or contain the event's value.
C9_ExactlyDueReceive ==
  /\ \A t \in BagToSet(sentLog) :
       \E c \in Due(EventOf(t[1]), t[2], newsAlerts) : c.id = t[3]
  /\ Dispatched =>
       {<<m.serverId, m.channelId>> : m \in Range(lastDispatch.msgs)}
         = {<<c.serverId, c.channelId>> :
              c \in Due(EventOf(lastDispatch.key[1]), lastDispatch.key[2], newsAlerts)}
  /\ \A x \in Exec :
       /\ \A k \in job[x].unmatched : Due(EventOf(k[1]), k[2], newsAlerts) = {}
       /\ job[x].pc = "publish" =>
            Range(job[x].configs) \subseteq
              Due(EventOf(Head(job[x].pending).id), job[x].alertType, newsAlerts)
\* a dispatch reached a subscription with an empty currency filter and left
\* out one that wants the alert type, and another event matched no subscription
C9_Witness ==
  /\ Dispatched
  /\ LET e == EventOf(lastDispatch.key[1])
         alertType == lastDispatch.key[2]
     IN /\ \E c \in Due(e, alertType, newsAlerts) : c.currency = {} /\ c.impact # {}
        /\ \E c \in newsAlerts : alertType \in c.alertType /\ c \notin Due(e, alertType, newsAlerts)
  /\ \E x \in Exec : job[x].unmatched # {}

\* C10: a dispatch without a publish failure publishes exactly one message
\* per subscription the event is due to, each with that subscription's
\* channelId and serverId and the event's title, currency, impact,
\* timestamp, forecast, previous and the alert type.
C10_OneMessagePerSubscription ==
  Dispatched =>
    LET e == EventOf(lastDispatch.key[1])
        alertType == lastDispatch.key[2]
        due == Due(e, alertType, newsAlerts)
        msgs == lastDispatch.msgs
    IN /\ Len(msgs) = Cardinality(due)
       /\ \A c \in due :
            Cardinality({i \in 1..Len(msgs) :
              msgs[i] = [title |-> e.title, country |-> e.currency, impact |-> e.impact,
                         date |-> [iso |-> e.date], forecast |-> e.forecast,
                         previous |-> e.previous, alertType |-> alertType,
                         channelId |-> c.channelId, serverId |-> c.serverId]}) = 1
       /\ \A i \in 1..Len(msgs) : CopiesIn(msgs[i], published) >= 1
\* a dispatch of one event went to two subscriptions
C10_Witness == Dispatched /\ Len(lastDispatch.msgs) >= 2

\* ------------------------------------------------- claims on FetchNewsJob
\* the rows stored under the identity of a provider item
RowsOf(newsItem, table) ==
  {r \in table : <<r.title, r.date, r.impact, r.currency>> = ItemIdentity(newsItem)}
\* the number of items of a list whose currency is not a Currency value
InvalidIn(news) ==
  Cardinality({i \in 1..Len(news) : ToUpperCase(news[i].country) \notin Currency})
\* the items of its provider data an execution has been through
Processed(f) == SubSeq(f.feed, 1, Len(f.feed) - Len(f.items))

\* C11: the table never holds two rows with the same (title, date, impact,
\* currency), and an upsert of a stored identity adds no row and leaves that
\* row with the forecast and previous of the item.
C11_OneRowPerIdentity ==
  /\ [](\A r1, r2 \in newsEvents :
          <<r1.title, r1.date, r1.impact, r1.currency>>
            = <<r2.title, r2.date, r2.impact, r2.currency>> => r1 = r2)
  /\ [][\A x \in Exec :
          (fetch[x].pc = "upsert" /\ fetch'[x].writes = fetch[x].writes + 1
             /\ RowsOf(Head(fetch[x].items), newsEvents) # {}) =>
            /\ Cardinality(newsEvents') = Cardinality(newsEvents)
            /\ RowsOf(Head(fetch[x].items), newsEvents') # {}
            /\ \A r \in RowsOf(Head(fetch[x].items), newsEvents') :
                 /\ r.forecast = Head(fetch[x].items).forecast
                 /\ r.previous = Head(fetch[x].items).previous]_vars
\* an upsert met the stored CPI row and left it with the revised forecast
C11_Witness ==
  /\ \E x \in Exec : fetch[x].hits > 0 /\ RevisedNews[1] \in fetch[x].upserted
  /\ \E r \in newsEvents : r.title = "CPI" /\ r.forecast = "0.4%"

\* C12: an upsert leaves every stored row as it was but for forecast and
\* previous: id, identity fields, actual, isProcessed and source stay.
C12_OnlyForecastPrevious ==
  [][(\E x \in Exec : fetch'[x].writes > fetch[x].writes) =>
       \A r \in newsEvents : \E r2 \in newsEvents' :
          r2 = [r EXCEPT !.forecast = r2.forecast, !.previous = r2.previous]]_vars
\* the row whose actual the checker had set was re-ingested with a revised
\* forecast
C12_Witness ==
  /\ \E x \in Exec : fetch[x].overActual
  /\ \E r \in newsEvents : r.actual # "" /\ r.isProcessed /\ r.forecast = "0.4%"

\* C13: when two executions have both upserted an identity, the table holds
\* exactly one row for it, with the forecast and previous of one of the two.
C13_ConcurrentUpsertsOneRow ==
  \A a \in fetch[1].upserted, b \in fetch[2].upserted :
    ItemIdentity(a) = ItemIdentity(b) =>
      /\ Cardinality(RowsOf(a, newsEvents)) = 1
      /\ \A r \in RowsOf(a, newsEvents) :
           <<r.forecast, r.previous>>
             \in {<<a.forecast, a.previous>>, <<b.forecast, b.previous>>}
\* two upserts of the CPI identity with different forecasts were in flight
\* together and both resolved
C13_Witness ==
  /\ \E x \in Exec : fetch[x].raced
  /\ \E a \in fetch[1].upserted, b \in fetch[2].upserted :
       ItemIdentity(a) = ItemIdentity(b) /\ a.forecast # b.forecast

\* C14: a run that completes ends with the table one uninterrupted run on
\* the same provider data would have left, whatever runs on that data were
\* completed or cut short before it.
C14_RestartConverges ==
  fetch[1].result = "ok" =>
    newsEvents = StoreNews(fetch[1].origin, fetch[1].feed)
\* a run was shut down after some of its upserts and the re-run completed
C14_Witness ==
  fetch[1].result = "ok" /\ fetch[1].resumed /\ fetch[1].hits > 0

\* C15: no row has a currency outside Currency; each item with an unknown
\* currency that an execution has been through counts one skip, the items
\* after it are processed, and the execution does not throw for it.
C15_InvalidCurrencySkipped ==
  /\ \A r \in newsEvents : r.currency \in Currency
  /\ \A x \in Exec :
       (fetch[x].pc = "upsert" \/ fetch[x].result = "ok") =>
         /\ fetch[x].skipped = InvalidIn(Processed(fetch[x])) + fetch[x].rejected
         /\ fetch[x].writes + fetch[x].rejected
              = Len(Processed(fetch[x])) - InvalidIn(Processed(fetch[x]))
  /\ \A x \in Exec : fetch[x].result = "threw" => fetch[x].skipped = 0
\* a batch with an unknown currency in the middle completed: one skip, and
\* the item after it is stored
C15_Witness ==
  /\ \E x \in Exec : /\ fetch[x].result = "ok" /\ fetch[x].feed = RevisedNews
                     /\ fetch[x].skipped = 1 /\ fetch[x].writes = 2
  /\ \E r \in newsEvents : r.title = "NFP"

\* C16: when a batch of N items completes, upserted + skipped = N, and the
\* skips are the unknown currencies plus the rejected upserts.
C16_CountsAddUp ==
  \A x \in Exec :
    fetch[x].result = "ok" =>
      /\ fetch[x].created + fetch[x].skipped = Len(fetch[x].feed)
      /\ fetch[x].skipped = InvalidIn(fetch[x].feed) + fetch[x].rejected
      /\ fetch[x].created = fetch[x].writes
\* a batch with an unknown currency and a rejected upsert completed, and
\* items after the rejected one were stored
C16_Witness ==
  \E x \in Exec : /\ fetch[x].result = "ok" /\ fetch[x].rejected >= 1
                  /\ fetch[x].skipped > fetch[x].rejected /\ fetch[x].writes >= 1

\* C17: an execution calls the provider once; when the call fails, the
\* execution is over without a store write.
C17_FetchOncePerCycle ==
  \A x \in Exec :
    /\ fetch[x].calls <= 1
    /\ fetch[x].result = "threw" =>
         fetch[x].calls = 1 /\ fetch[x].writes = 0 /\ fetch[x].pc = "idle"
\* a provider call failed
C17_Witness == \E x \in Exec : fetch[x].result = "threw" /\ failures > 0

\* C18: no execution of a job ends by throwing out of execute.
C18_NoFailureEscapes ==
  \A x \in Exec : fetch[x].result # "threw" /\ job[x].result # "threw"

\* ------------------------------------ claims on SendAlertsJob's failures
\* the attempts of a list that are equal to one of them but for the outcome
SameAttempt(attempts, a) ==
  {i \in 1..Len(attempts) : SubSeq(attempts[i], 1, 3) = SubSeq(a, 1, 3)}
\* the keys an execution's sendAlert calls have been through
Handled(j) == j.skipped \cup j.sent \cup j.unmatched \cup j.caught

\* C19: within one execution no publish is attempted twice, a rejected
\* publish does not end the scan, and a scan that completes has called
\* sendAlert for every event of both windows.
C19_FailedPublishNotRetried ==
  /\ [](\A x \in Exec :
          /\ \A i \in 1..Len(job[x].attempts) :
               Cardinality(SameAttempt(job[x].attempts, job[x].attempts[i])) = 1
          /\ job[x].result = "ok" =>
               /\ \A id \in job[x].fiveEvents :
                    <<id, "FIVE_MINUTES_BEFORE">> \in Handled(job[x])
               /\ \A id \in job[x].dropEvents :
                    <<id, "ON_NEWS_DROP">> \in Handled(job[x]))
  /\ [][\A x \in Exec :
          (job[x].pc = "publish" /\ failures' > failures) =>
            /\ job'[x].result # "threw"
            /\ job'[x].pc \in {"alert_query", "drop_query", "idle"}
            /\ job[x].alertType = "FIVE_MINUTES_BEFORE" => job'[x].pc # "idle"
            /\ published' = published]_vars
\* a publish was rejected and the scan went on to publish for another event
\* or window, and completed
C19_Witness ==
  \E x \in Exec :
    /\ job[x].result = "ok"
    /\ \E i \in 1..Len(job[x].attempts) :
         /\ ~job[x].attempts[i][4]
         /\ \E k \in (i + 1)..Len(job[x].attempts) : job[x].attempts[k][4]

\* C20: when a publish for one subscription of an event is rejected, the
\* execution still publishes the event's message to every other
\* subscription it is due to.
C20_FanOutIndependent ==
  \A x \in Exec :
    job[x].result = "ok" =>
      \A i \in 1..Len(job[x].attempts) :
        LET a == job[x].attempts[i]
        IN ~a[4] =>
             \A c \in Due(EventOf(a[1]), a[2], newsAlerts) :
               c.id # a[3] =>
                 \E k \in 1..Len(job[x].attempts) :
                   job[x].attempts[k] = <<a[1], a[2], c.id, TRUE>>

\* ------------------------------------------ claims on failures and overlap
\* the keys whose sendAlert call failed before its first publish
MatchFailed(j) ==
  {k \in j.caught :
     ~\E i \in 1..Len(j.attempts) :
        <<j.attempts[i][1], j.attempts[i][2]>> = k /\ ~j.attempts[i][4]}

\* C21: an execution in which the matching of subscriptions failed for an
\* event has ended by throwing out of execute.
C21_MatchingErrorFatal ==
  \A x \in Exec :
    MatchFailed(job[x]) # {} => job[x].pc = "idle" /\ job[x].result = "threw"

\* C22: at most one execution of SendAlertsJob.execute is under way, and a
\* timer tick that finds a scan under way starts nothing and is counted as
\* skipped.
C22_ScansNeverOverlap ==
  /\ [](Cardinality({x \in Exec : job[x].pc # "idle"}) <= 1)
  /\ [][(timer'.fired # timer.fired /\ \E x \in Exec : job[x].pc # "idle") =>
          job' = job /\ timer'.skipped = timer.skipped + 1]_vars
\* a tick arrived while a scan was under way
C22_Witness == timer.skipped > 0 /\ \E x \in Exec : job[x].pc # "idle"

C23_WallClockKept ==
  \A x \in Exec : \A newsItem \in fetch[x].upserted :
    newsItem.date.offset = ZoneOffset("America/New_York", ParseDate(newsItem.date)) =>
      \E r \in newsEvents :
        /\ r.title = newsItem.title
        /\ r.date \div 60 = newsItem.date.wall \div 60
        /\ r.date % 60 = newsItem.date.wall % 60
        /\ r.date # ParseDate(newsItem.date)
\* one execution stored an item stamped in EDT and one stamped in EST
C23_Witness ==
  \E x \in Exec : \E a, b \in fetch[x].upserted :
    /\ a.date.offset = -(4 * 3600)
    /\ b.date.offset = -(5 * 3600)

\* C24: two different (title, date, impact, currency) tuples never give
\* the same hash input string.
C24_NoFieldConfusion ==
  \A i, k \in 1..Len(hashLog) :
    hashLog[i].hashInput = hashLog[k].hashInput =>
      /\ hashLog[i].title = hashLog[k].title /\ hashLog[i].date = hashLog[k].date
      /\ hashLog[i].impact = hashLog[k].impact /\ hashLog[i].currency = hashLog[k].currency

\* C25: a sendAlert call publishes for a key that was published earlier in
\* the process only after the cache was cleared by exceeding its threshold.
C25_RepublishedOnlyAfterClear ==
  [][\A x \in Exec :
       (/\ job[x].pc = "publish" /\ job[x].callMsgs = <<>>
        /\ job'[x] # job[x] /\ sentLog' # sentLog
        /\ \E t \in BagToSet(sentLog) :
             <<t[1], t[2]>> = AlertKey(Head(job[x].pending), job[x].alertType))
       => cleared]_vars

\* C26: a message is acknowledged only in the step in which channel.send for
\* it resolved; a failed delivery leaves it unacknowledged, and an
\* unacknowledged message stays with the broker until it is redelivered.
C26_AckOnlyAfterDelivery ==
  /\ [](\A m \in DOMAIN consumer.at : consumer.at[m] = "acked" => consumer.sends[m] >= 1)
  /\ [][\A m \in DOMAIN consumer.at :
          /\ (consumer'.at[m] = "acked" /\ consumer.at[m] # "acked") =>
               consumer.at[m] = "sending" /\ consumer'.sends[m] = consumer.sends[m] + 1
          /\ consumer.at[m] = "unacked" => consumer'.at[m] \in {"unacked", "ready"}]_vars
\* one message was delivered and acknowledged, another failed, was
\* redelivered after the channel closed and is in the callback again
C26_Witness ==
  /\ consumer.closes > 0
  /\ \E m, n \in DOMAIN consumer.at :
       /\ consumer.at[m] = "acked"
       /\ consumer.at[n] \in {"fetching", "sending"} /\ consumer.sends[n] = 0

\* C27: getGuildDetails and getGuildSchedules answer only for a guild the
\* user is in and owns or administers (Administrator or Manage Server), and
\* getMyGuilds lists only such guilds.
C27_AdminOnly ==
  /\ (web.answer.procedure \in {"getGuildDetails", "getGuildSchedules"}
        /\ web.answer.result = "ok") =>
       \E g \in web.guilds :
         /\ g.id = web.answer.guildId
         /\ (g.owner \/ HasBit(BigInt(g.permissions), 8) \/ HasBit(BigInt(g.permissions), 32))
  /\ (web.answer.procedure = "getMyGuilds" /\ web.answer.result = "ok") =>
       \A g \in web.answer.guilds :
         /\ g \in web.guilds
         /\ (g.owner \/ HasBit(BigInt(g.permissions), 8) \/ HasBit(BigInt(g.permissions), 32))

\* C28: a run of the retention sweep deletes every processed event older than
\* 30 days and every unprocessed event older than 60 days, and keeps every
\* unprocessed event younger than 60 days.
C28_RetentionSweep ==
  [][swept'.count = swept.count + 1 =>
       \A e \in newsEvents :
         /\ (e.isProcessed /\ clock - e.date > 30 * DaySeconds) => e \notin newsEvents'
         /\ (~e.isProcessed /\ clock - e.date > 60 * DaySeconds) => e \notin newsEvents'
         /\ (~e.isProcessed /\ clock - e.date < 60 * DaySeconds) => e \in newsEvents']_vars
\* a sweep deleted a processed and an unprocessed event and kept an
\* unprocessed event that is older than 30 days
C28_Witness ==
  /\ swept.count > 0
  /\ \E a, b \in swept.deleted : a % 2 = 1 /\ b % 2 = 0
  /\ \E e \in newsEvents : ~e.isProcessed /\ clock - e.date > 30 * DaySeconds

\* C29: a run of FetchNewsJob.execute that completed has fetched the news of
\* each of the markets FOREX, CRYPTO, ENERGY and METAL.
C29_AllMarketsFetched ==
  \A x \in Exec :
    fetch[x].result = "ok" => fetch[x].markets = {"FOREX", "CRYPTO", "ENERGY", "METAL"}

\* ---------------------------------------------------------------------
\* The Discord bot's ready handler (apps/discord/src/bot/events/ready.ts)
\* ---------------------------------------------------------------------

\* export const once = true
once == TRUE

\* a start-up failure nobody catches: the rejection is left unhandled
OnStartConsumerErrorUnhandled(b) ==
  [b EXCEPT !.consumers = "failed", !.crashed = TRUE]

\* .catch((error) => console.error(...)): the failure is logged and ends there
OnStartConsumerError(b) ==
  [b EXCEPT !.consumers = "failed", !.logged = TRUE]

\* execute(client): logs, calls startConsumer without awaiting it, returns
execute(b) ==
  [b EXCEPT !.handled = @ + 1, !.handler = "returned", !.consumers = "starting"]

\* the client emits ClientReady; a listener registered with once is detached
\* by its first run
ClientReadyEmitted(c) ==
  /\ bot[c].ready < MaxReadyEvents
  /\ ~bot[c].crashed
  /\ LET b == [bot[c] EXCEPT !.ready = @ + 1]
     IN bot' = [bot EXCEPT ![c] = IF once /\ b.handled > 0 THEN b ELSE execute(b)]
  /\ UNCHANGED <<workerVars, timer, hashLog, consumer, web, swept, sched>>

\* the promise of startConsumer resolves: .then logs the start
StartConsumerResolves(c) ==
  /\ bot[c].consumers = "starting"
  /\ bot' = [bot EXCEPT ![c].consumers = "started"]
  /\ UNCHANGED <<workerVars, timer, hashLog, consumer, web, swept, sched>>

\* the promise of startConsumer rejects
StartConsumerRejects(c) ==
  /\ bot[c].consumers = "starting"
  /\ bot' = [bot EXCEPT ![c] = OnStartConsumerError(bot[c])]
  /\ UNCHANGED <<workerVars, timer, hashLog, consumer, web, swept, sched>>

\* a command arrives at a client that is ready and whose process is up
CommandServed(c) ==
  /\ bot[c].ready > 0
  /\ ~bot[c].crashed
  /\ bot[c].commands < MaxCommands
  /\ bot' = [bot EXCEPT ![c].commands = @ + 1,
                        ![c].servedWith = @ \cup {bot[c].consumers}]
  /\ UNCHANGED <<workerVars, timer, hashLog, consumer, web, swept, sched>>

NextBot ==
  \E c \in Clients :
    \/ ClientReadyEmitted(c)
    \/ StartConsumerResolves(c)
    \/ StartConsumerRejects(c)
    \/ CommandServed(c)

SpecBot == InitRest({"UTC"}, {AllAlertConfigs}) /\ sentAlerts = {} /\ [][NextBot]_vars

C32_FiveWindowFirst ==
  /\ [](\A x \in Exec :
          /\ job[x].alertType = "ON_NEWS_DROP" =>
               \A id \in job[x].fiveEvents :
                 <<id, "FIVE_MINUTES_BEFORE">> \in
                   job[x].skipped \cup job[x].sent \cup job[x].unmatched \cup job[x].caught
          /\ \A i, k \in 1..Len(job[x].attempts) :
               (i < k /\ job[x].attempts[i][2] = "ON_NEWS_DROP") =>
                 job[x].attempts[k][2] = "ON_NEWS_DROP")
  /\ [][\A x \in Exec :
          (job[x].pc = "five_query" /\ failures' = failures + 1) =>
            /\ job'[x].pc = "idle" /\ job'[x].result = "threw"
            /\ job'[x].alertType = "FIVE_MINUTES_BEFORE" /\ job'[x].dropEvents = {}]_vars
\* an execution published for a five-minute event and then found events in
\* its on-drop window
C32_Witness ==
  \E x \in Exec :
    /\ job[x].alertType = "ON_NEWS_DROP" /\ job[x].dropEvents # {}
    /\ \E k \in job[x].sent : k[2] = "FIVE_MINUTES_BEFORE"

C34_MarketsInOrderFailureEndsRun ==
  /\ [](\A x \in Exec :
          /\ fetch[x].marketLog \o fetch[x].todo = fetch[x].list
          /\ fetch[x].result = "threw" => fetch[x].pc = "idle"
          /\ \A newsItem \in fetch[x].upserted :
               \E r \in newsEvents :
                 <<r.title, r.date, r.impact, r.currency>> = ItemIdentity(newsItem))
  /\ [][\A x \in Exec :
          (fetch[x].pc = "fetching" /\ failures' = failures + 1) =>
            /\ fetch'[x].pc = "idle" /\ fetch'[x].result = "threw"
            /\ fetch'[x].marketLog = fetch[x].marketLog
            /\ newsEvents' = newsEvents]_vars
\* the fetch of a market after the first failed with markets still to
\* come, and the rows of the earlier markets are stored
C34_Witness ==
  /\ fetch[1].result = "threw" /\ Len(fetch[1].marketLog) >= 2
  /\ fetch[1].todo # <<>> /\ fetch[1].upserted # {}

\* C35 as stated: in an execution whose query resolved and which has ended,
\* every matching schedule has exactly one task published if and only if
\* its news list is non-empty, and every matching schedule was processed.
C35_OneTaskIffNews ==
  (sched.pc = "idle" /\ sched.queried) =>
    \A id \in sched.matched :
      /\ sched.tasks[id] = 1 <=> sched.news[id] = "some"
      /\ sched.outcome[id] # "none"
\* C35 as amended: exactly one task if and only if the news list is
\* non-empty and the publish did not fail, none otherwise, and every
\* matching schedule was processed whatever failed for the others.
C35_OneTaskIffNewsAndPublished ==
  /\ \A id \in ScheduleIds :
       /\ sched.tasks[id] <= 1
       /\ sched.tasks[id] = 1 => id \in sched.matched
  /\ (sched.pc = "idle" /\ sched.queried) =>
       \A id \in sched.matched :
         /\ sched.tasks[id] = 1 <=>
              (sched.news[id] = "some" /\ sched.outcome[id] # "publish_failed")
         /\ sched.outcome[id] # "none"
\* the publish for one schedule failed and a later schedule of the same
\* execution had its task published
C35_Witness ==
  /\ sched.pc = "idle" /\ sched.queried
  /\ \E a, b \in sched.matched :
       /\ a < b
       /\ sched.outcome[a] = "publish_failed" /\ sched.news[a] = "some"
       /\ sched.tasks[b] = 1
\* C36: the ready handler returns in the step that starts the consumers,
\* without waiting for them; it runs at most once per client however often
\* ClientReady is emitted; a failed start of the consumers is logged, never
\* makes the handler fail and never takes the process down, so that commands
\* are served whatever became of the consumers.
C36_ReadyStartsConsumersInBackground ==
  /\ [](\A c \in Clients :
          /\ bot[c].handled <= 1
          /\ bot[c].handled = 1 <=> bot[c].ready > 0
          /\ bot[c].handler \in {"none", "returned"}
          /\ ~bot[c].crashed
          /\ bot[c].consumers = "failed" => bot[c].logged
          /\ (bot[c].ready > 0 /\ bot[c].commands < MaxCommands) => ENABLED CommandServed(c))
  /\ [][\A c \in Clients :
          bot'[c].handled = bot[c].handled + 1 =>
            /\ bot'[c].handler = "returned"
            /\ bot'[c].consumers = "starting"]_vars

C36_Witness ==
  \E c \in Clients :
    /\ bot[c].ready = 2 /\ bot[c].handled = 1
    /\ bot[c].consumers = "failed" /\ bot[c].logged
    /\ "failed" \in bot[c].servedWith
    /\ "starting" \in bot[c].servedWith

\* C37: a procedure of the guild router that ran for a user without a
\* Discord account row, without an access token, or whose token's expiry is
\* set and in the past, ended in the error thrown by getUserDiscordAccount,
\* made no request to the Discord API and answered no guild data; for any
\* other user the account was returned and the Discord API was asked.
C37_NoAccountNoDiscordCall ==
  web.answer.procedure # "none" =>
    LET account == web.account
        usable == /\ account.row
                  /\ account.accessToken = "token"
                  /\ \A t \in {account.accessTokenExpiresAt[i] :
                                  i \in DOMAIN account.accessTokenExpiresAt} : t >= clock
    IN IF usable
       THEN web.answer.calls = 1
       ELSE /\ web.answer.result = "error"
            /\ web.answer.calls = 0
            /\ "guilds" \notin DOMAIN web.answer
            /\ web.answer.error \in {"No Discord account found",
                                      "No access token available",
                                      "Access token expired. Please re-authenticate."}

\* getGuildSchedules was refused for a member of the guild whose token had
\* expired
C37_Witness ==
  /\ web.answer.procedure = "getGuildSchedules"
  /\ web.answer.result = "error" /\ web.answer.calls = 0
  /\ web.account.accessToken = "token"
  /\ web.account.accessTokenExpiresAt = <<-1>>
  /\ \E g \in web.guilds : g.id = web.answer.guildId

\* the binary digits of a number, lowest first
RECURSIVE Binary(_)
Binary(n) == IF n = 0 THEN <<>> ELSE <<n % 2>> \o Binary(n \div 2)
\* the permission integers whose Administrator bit (the fourth binary digit)
\* or Manage Server bit (the sixth) is set
AdminIntegers ==
  {n \in 0..MaxPermission :
     \/ Len(Binary(n)) >= 4 /\ Binary(n)[4] = 1
     \/ Len(Binary(n)) >= 6 /\ Binary(n)[6] = 1}

\* C38: for every guild of the user, hasAdminPermission of its permission
\* string holds exactly when the integer has the Administrator bit (0x8) or
\* the Manage Server bit (0x20) set, and getMyGuilds, which answers
\* filterAdminGuilds of the user's guilds, keeps the guild exactly when the
\* user owns it or hasAdminPermission holds.
C38_AdminBitsExactly ==
  /\ \A g \in web.guilds :
       hasAdminPermission(g.permissions) <=>
         \E n \in AdminIntegers : Decimal(n) = g.permissions
  /\ (web.answer.procedure = "getMyGuilds" /\ web.answer.result = "ok") =>
       /\ web.answer.guilds = filterAdminGuilds(web.guilds)
       /\ \A g \in web.guilds :
            g \in web.answer.guilds <=>
              (g.owner \/ \E n \in AdminIntegers : Decimal(n) = g.permissions)

\* getMyGuilds kept a guild the user only manages (0x20 with other bits,
\* without 0x8) and dropped one in which the user holds every bit but the two
C38_Witness ==
  /\ web.answer.procedure = "getMyGuilds" /\ web.answer.result = "ok"
  /\ \E g \in web.answer.guilds : ~g.owner /\ g.permissions = <<5, 5>>
  /\ \E g \in web.guilds \ web.answer.guilds : ~g.owner /\ g.permissions = <<2, 3>>

====
